---- MODULE Spec2Model ----
(***************************************************************************)
(* Model of src/src/app.js: an express application with six routes over    *)
(* three tables (history, profile, feedback), a mysql2 connection pool and *)
(* a Cloud Storage bucket.  Every request is one asynchronous task; the    *)
(* actions are the stretches of code between two awaits.                   *)
(***************************************************************************)
EXTENDS Integers, Sequences, FiniteSets, TLC

VARIABLES
  history,       \* table history: rows in insertion order
  feedback,      \* table feedback: rows in insertion order
  profile,       \* table profile: id -> [name, profile_picture_url]
  objects,       \* keys of the blobs written to the bucket
  clock,         \* wall-clock time (Date.now(), CURRENT_TIMESTAMP)
  checkedOut,    \* pool connections held by callers of query
  free,          \* pool connections open and idle
  queue,         \* pool's queue of getConnection callers (request numbers)
  reqs,          \* one record per request received: its position and locals
  lastResponse   \* the response sent last, with the request it answers

vars == <<history, feedback, profile, objects, clock, checkedOut, free, queue,
          reqs, lastResponse>>

\* Bounds of the model.
MaxReq == 2
MaxHistoryReq == 3
MaxPoolReq == 11

\* dbConfig.connectionLimit
ConnectionLimit == 10
\* Variant: a pool that fails a caller when no connection is free.
WaitForConnectionsOff == FALSE
\* dbConfig.waitForConnections
WaitForConnections == TRUE
\* multer limits.fileSize
FileSizeLimit == 5 * 1024 * 1024
\* multer fileFilter allowedMimes
AllowedMimes == {"image/jpeg", "image/png", "image/jpg"}
\* process.env.BUCKET_NAME
BucketName == "bucket"

----------------------------------------------------------------------------
\* JavaScript values of a request body: undefined, numbers, strings (as
\* sequences of characters).
Undef == [t |-> "undefined", n |-> 0, s |-> <<>>]
Num(n) == [t |-> "number", n |-> n, s |-> <<>>]
Str(s) == [t |-> "string", n |-> 0, s |-> s]
Null == <<>>

DigitChars == <<"0", "1", "2", "3", "4", "5", "6", "7", "8", "9">>
IsDigit(c) == \E d \in 1..10 : DigitChars[d] = c
DigitValue(c) == (CHOOSE d \in 1..10 : DigitChars[d] = c) - 1

\* !v
Truthy(v) ==
  CASE v.t = "undefined" -> FALSE
    [] v.t = "number" -> v.n # 0
    [] v.t = "string" -> v.s # <<>>

RECURSIVE DigitsValue(_, _)
DigitsValue(s, acc) ==
  IF s = <<>> THEN acc ELSE DigitsValue(Tail(s), 10 * acc + DigitValue(Head(s)))

\* StrWhiteSpaceChar: the six ASCII blanks TAB, LF, VT, FF, CR and SP, and
\* the blanks outside ASCII (NBSP, U+1680, the space separators U+2000 to
\* U+200A, U+202F, U+205F and U+3000, the line terminators U+2028 and U+2029
\* and ZWNBSP).  A character outside ASCII is one element of a string,
\* written by its code point, U+hhhh.
WhiteSpace ==
  {"\t", "\n", "", "\f", "\r", " ", "U+00A0", "U+1680", "U+2000",
   "U+2001", "U+2002", "U+2003", "U+2004", "U+2005", "U+2006", "U+2007",
   "U+2008", "U+2009", "U+200A", "U+2028", "U+2029", "U+202F", "U+205F",
   "U+3000", "U+FEFF"}
Drop(s, n) == SubSeq(s, n + 1, Len(s))
\* How many elements at the start, and at the end, of s are in the set.
Leading(s, set) ==
  Cardinality({n \in 1..Len(s) : \A i \in 1..n : s[i] \in set})
Trailing(s, set) ==
  Cardinality({n \in 1..Len(s) :
                 \A i \in (Len(s) + 1 - n)..Len(s) : s[i] \in set})
TrimLeft(s) == Drop(s, Leading(s, WhiteSpace))
TrimRight(s) == SubSeq(s, 1, Len(s) - Trailing(s, WhiteSpace))

LeadingDigits(s) == SubSeq(s, 1, Leading(s, {DigitChars[d] : d \in 1..10}))
DropZeros(s) == Drop(s, Leading(s, {"0"}))

----------------------------------------------------------------------------
\* Natural numbers of any size: the decimal digits, the lowest first and
\* the highest not 0; <<>> is 0.
BigTrim(a) == SubSeq(a, 1, Len(a) - Trailing(a, {0}))
RECURSIVE BigOfNat(_)
BigOfNat(n) == IF n = 0 THEN <<>> ELSE <<n % 10>> \o BigOfNat(n \div 10)
\* The number a numeral's digits stand for.
BigOfDigits(s) ==
  BigTrim([i \in 1..Len(s) |-> DigitValue(s[Len(s) + 1 - i])])
\* a * k + c for small k and c
Products == [a : Seq(0..9), k : Nat, c : Nat]
BigTimesDigits[g \in Products] ==
  IF g.a = <<>> THEN BigOfNat(g.c)
  ELSE <<(Head(g.a) * g.k + g.c) % 10>>
         \o BigTimesDigits[[g EXCEPT !.a = Tail(g.a),
                                     !.c = (Head(g.a) * g.k + g.c) \div 10]]
BigTimes(a, k, c) == BigTrim(BigTimesDigits[[a |-> a, k |-> k, c |-> c]])
\* 2a: the carry into a place is 1 when the digit below it is 5 or more.
BigDouble(a) ==
  BigTrim([i \in 1..(Len(a) + 1) |->
             ((IF i <= Len(a) THEN 2 * a[i] ELSE 0)
                + (IF i > 1 /\ a[i - 1] >= 5 THEN 1 ELSE 0)) % 10])
\* a * 10^k
BigShift(a, k) == IF a = <<>> THEN <<>> ELSE [i \in 1..k |-> 0] \o a
\* Whether the n lowest digits of a make less than those of b.
LowLess(a, b, n) ==
  \E i \in 1..n : a[i] < b[i] /\ \A j \in (i + 1)..n : a[j] = b[j]
BigLess(a, b) ==
  Len(a) < Len(b) \/ (Len(a) = Len(b) /\ LowLess(a, b, Len(a)))
\* a - b for a >= b: a place borrows when the digits below it make less
\* in a than in b.
BigMinus(a, b) ==
  LET bb == [i \in 1..Len(a) |-> IF i <= Len(b) THEN b[i] ELSE 0] IN
  BigTrim([i \in 1..Len(a) |->
             (a[i] - bb[i] - (IF LowLess(a, bb, i - 1) THEN 1 ELSE 0) + 10)
               % 10])

----------------------------------------------------------------------------
\* A Number: NaN, or a sign and an infinity, zero (no bits) or the binary
\* numeral 1.b2b3... * 2^exp, bits = <<1, b2, b3, ...>> ending in a 1.
NaN == [nan |-> TRUE, neg |-> FALSE, inf |-> FALSE, bits |-> <<>>, exp |-> 0]
Double(neg, bits, exp) ==
  [nan |-> FALSE, neg |-> neg, inf |-> FALSE, bits |-> bits, exp |-> exp]
Zero(neg) == Double(neg, <<>>, 0)
Inf(neg) == [nan |-> FALSE, neg |-> neg, inf |-> TRUE, bits |-> <<>>, exp |-> 0]
Negate(x) == IF x.nan THEN x ELSE [x EXCEPT !.neg = ~x.neg]

\* a * 2^4 and a * 2^24
Big16(a) == BigDouble(BigDouble(BigDouble(BigDouble(a))))
Big2to24(a) == Big16(Big16(Big16(Big16(Big16(Big16(a))))))

Ratios == [neg : BOOLEAN, p : Seq(0..9), q : Seq(0..9), e : Int]
Scaled(s) ==
  s.p = <<>> \/ (~BigLess(s.p, s.q) /\ BigLess(s.p, BigDouble(s.q)))
ScaleStep(s) ==
  IF Len(s.q) > Len(s.p) + 8
    THEN [s EXCEPT !.p = Big2to24(s.p), !.e = s.e - 24]
  ELSE IF Len(s.p) > Len(s.q) + 8
    THEN [s EXCEPT !.q = Big2to24(s.q), !.e = s.e + 24]
  ELSE IF BigLess(s.p, s.q)
    THEN [s EXCEPT !.p = BigDouble(s.p), !.e = s.e - 1]
  ELSE [s EXCEPT !.q = BigDouble(s.q), !.e = s.e + 1]
Scale[s \in Ratios] ==
  IF Scaled(s) THEN s ELSE Scale[ScaleStep(s)]

Divisions ==
  [neg : BOOLEAN, bits : Seq({0, 1}), r : Seq(0..9), q : Seq(0..9), e : Int,
   n : Int]
Division[s \in Ratios] ==
  [neg |-> s.neg, bits |-> <<>>, r |-> s.p, q |-> s.q, e |-> s.e,
   n |-> IF s.e >= 0 - 1022 THEN 53 ELSE s.e + 1075]
NextBit(g) ==
  IF BigLess(g.r, g.q)
    THEN [g EXCEPT !.bits = Append(g.bits, 0), !.r = BigDouble(g.r)]
    ELSE [g EXCEPT !.bits = Append(g.bits, 1),
                   !.r = BigDouble(BigMinus(g.r, g.q))]
Significand[g \in Divisions] ==
  IF Len(g.bits) >= g.n \/ g.r = <<>> THEN g ELSE Significand[NextBit(g)]

DropZeroBits(bits) == SubSeq(bits, 1, Len(bits) - Trailing(bits, {0}))
NextBits(bits) ==
  SubSeq(bits, 1, Len(bits) - Trailing(bits, {1}) - 1) \o <<1>>
Rounded[g \in Divisions] ==
  LET odd == g.bits # <<>> /\ g.bits[Len(g.bits)] = 1
      up == g.r # <<>> /\ (BigLess(g.q, g.r) \/ (g.r = g.q /\ odd))
      carry == up /\ \A i \in 1..Len(g.bits) : g.bits[i] = 1
      bits == IF carry THEN <<1>>
              ELSE IF up THEN NextBits(g.bits)
              ELSE DropZeroBits(g.bits)
      exp == IF carry THEN g.e + 1 ELSE g.e
  IN IF g.n < 0 \/ bits = <<>> THEN Zero(g.neg)
     ELSE IF exp >= 1024 THEN Inf(g.neg)
     ELSE Double(g.neg, bits, exp)

RoundToDouble(neg, p, q) ==
  Rounded[Significand[Division[Scale[[neg |-> neg, p |-> p, q |-> q,
                                      e |-> 0]]]]]

DecimalToDouble(neg, n, e) ==
  IF n = <<>> THEN Zero(neg)
  ELSE IF Len(n) + e > 309 THEN Inf(neg)
  ELSE IF Len(n) + e < 0 - 323 THEN Zero(neg)
  ELSE RoundToDouble(neg, BigShift(n, IF e > 0 THEN e ELSE 0),
                     BigShift(<<1>>, IF e < 0 THEN 0 - e ELSE 0))

RECURSIVE BitsLess(_, _)
BitsLess(a, b) ==
  IF b = <<>> THEN FALSE
  ELSE IF a = <<>> THEN TRUE
  ELSE IF Head(a) # Head(b) THEN Head(a) < Head(b)
  ELSE BitsLess(Tail(a), Tail(b))
IsZero(x) == ~x.inf /\ x.bits = <<>>
MagnitudeLess(x, y) ==
  IF x.inf THEN FALSE
  ELSE IF y.inf THEN TRUE
  ELSE IF IsZero(y) THEN FALSE
  ELSE IF IsZero(x) THEN TRUE
  ELSE x.exp < y.exp \/ (x.exp = y.exp /\ BitsLess(x.bits, y.bits))
Less(x, y) ==
  /\ ~x.nan
  /\ ~y.nan
  /\ ~(IsZero(x) /\ IsZero(y))
  /\ IF x.neg # y.neg THEN x.neg
     ELSE IF x.neg THEN MagnitudeLess(y, x)
     ELSE MagnitudeLess(x, y)

----------------------------------------------------------------------------
\* The digits of the radix-prefixed literals 0x, 0o and 0b.
RadixDigits ==
  <<"0", "1", "2", "3", "4", "5", "6", "7", "8", "9", "a", "b", "c", "d", "e",
    "f">>
UpperHex == <<"A", "B", "C", "D", "E", "F">>
RadixDigitValue(c) ==
  IF \E d \in 1..16 : RadixDigits[d] = c
    THEN (CHOOSE d \in 1..16 : RadixDigits[d] = c) - 1
  ELSE IF \E d \in 1..6 : UpperHex[d] = c
    THEN (CHOOSE d \in 1..6 : UpperHex[d] = c) + 9
  ELSE 16
Numerals == [s : Seq(STRING), radix : Nat, acc : Seq(0..9)]
RadixValue[g \in Numerals] ==
  IF g.s = <<>> THEN g.acc
  ELSE RadixValue[[g EXCEPT !.s = Tail(g.s),
                            !.acc = BigTimes(g.acc, g.radix,
                                             RadixDigitValue(Head(g.s)))]]
RadixLiteral(s, radix) ==
  IF s # <<>> /\ \A i \in 1..Len(s) : RadixDigitValue(s[i]) < radix
    THEN RoundToDouble(FALSE,
                        RadixValue[[s |-> s, radix |-> radix, acc |-> <<>>]],
                        <<1>>)
    ELSE NaN

\* The exponent part: <<>> (none), or e/E, an optional sign and digits.
\* [ok, e]; an exponent of more than six digits counts as 999999.
ExponentPart(s) ==
  IF s = <<>> THEN [ok |-> TRUE, e |-> 0]
  ELSE IF Head(s) \notin {"e", "E"} THEN [ok |-> FALSE, e |-> 0]
  ELSE LET t == Tail(s)
           signed == t # <<>> /\ Head(t) \in {"+", "-"}
           digits == IF signed THEN Tail(t) ELSE t
           size == IF Len(DropZeros(digits)) > 6 THEN 999999
                   ELSE DigitsValue(DropZeros(digits), 0)
       IN IF digits # <<>> /\ \A i \in 1..Len(digits) : IsDigit(digits[i])
            THEN [ok |-> TRUE,
                  e |-> IF signed /\ Head(t) = "-" THEN 0 - size ELSE size]
            ELSE [ok |-> FALSE, e |-> 0]

\* An unsigned decimal literal: digits, an optional fraction, an optional
\* exponent; at least one digit before the exponent.
DecimalLiteral(s) ==
  LET int == LeadingDigits(s)
      r1 == Drop(s, Len(int))
      dot == r1 # <<>> /\ Head(r1) = "."
      frac == IF dot THEN LeadingDigits(Tail(r1)) ELSE <<>>
      r2 == IF dot THEN Drop(Tail(r1), Len(frac)) ELSE r1
      ex == ExponentPart(r2)
  IN IF Len(int) + Len(frac) = 0 \/ ~ex.ok THEN NaN
     ELSE DecimalToDouble(FALSE, BigOfDigits(int \o frac), ex.e - Len(frac))

Infinity == <<"I", "n", "f", "i", "n", "i", "t", "y">>

\* Number(s) for a string: blanks around the numeral are dropped; "" is 0;
\* 0x, 0o and 0b literals take no sign; anything else is NaN.
UnsignedLiteral(s) == IF s = Infinity THEN Inf(FALSE) ELSE DecimalLiteral(s)
StringToNumber(str) ==
  LET s == TrimRight(TrimLeft(str))
  IN IF s = <<>> THEN Zero(FALSE)
     ELSE IF Len(s) >= 2 /\ s[1] = "0" /\ s[2] \in {"x", "X"}
       THEN RadixLiteral(Drop(s, 2), 16)
     ELSE IF Len(s) >= 2 /\ s[1] = "0" /\ s[2] \in {"o", "O"}
       THEN RadixLiteral(Drop(s, 2), 8)
     ELSE IF Len(s) >= 2 /\ s[1] = "0" /\ s[2] \in {"b", "B"}
       THEN RadixLiteral(Drop(s, 2), 2)
     ELSE IF Head(s) = "+" THEN UnsignedLiteral(Tail(s))
     ELSE IF Head(s) = "-" THEN Negate(UnsignedLiteral(Tail(s)))
     ELSE UnsignedLiteral(s)

\* ToNumber(v) of the relational operators.
ToNumber(v) ==
  CASE v.t = "undefined" -> NaN
    [] v.t = "number" ->
         RoundToDouble(v.n < 0, BigOfNat(IF v.n < 0 THEN 0 - v.n ELSE v.n),
                       <<1>>)
    [] v.t = "string" -> StringToNumber(v.s)

\* v < k and v > k for a number k: false when v converts to NaN.
JsLess(v, k) == Less(ToNumber(v), ToNumber(Num(k)))
JsGreater(v, k) == Less(ToNumber(Num(k)), ToNumber(v))

\* `${n}` for a number n >= 0: its decimal numeral.
RECURSIVE DecStr(_)
DecStr(n) ==
  IF n < 10 THEN <<DigitChars[n + 1]>>
  ELSE DecStr(n \div 10) \o <<DigitChars[(n % 10) + 1]>>

\* MySQL's conversion of a string parameter compared with an integer
\* column: the value of its leading digits, 0 when there are none.
SqlInt(s) == DigitsValue(LeadingDigits(s), 0)

----------------------------------------------------------------------------
\* Requests.
NoFile == [present |-> FALSE, mimetype |-> "", size |-> 0, originalname |-> <<>>]
File(mime, size, name) ==
  [present |-> TRUE, mimetype |-> mime, size |-> size, originalname |-> name]

\* req.body: the fields the request sent.  A field it did not send reads
\* as undefined.
EmptyBody == [f \in {} |-> Undef]
Field(body, f) == IF f \in DOMAIN body THEN body[f] ELSE Undef

Request(method, path, id, body, file, malformed) ==
  [method |-> method, path |-> path, id |-> id, body |-> body, file |-> file,
   malformed |-> malformed]

NoRequest == Request("", "", <<>>, EmptyBody, NoFile, FALSE)

PostHistory(title, message) ==
  Request("POST", "/api/history", <<>>,
          [title |-> title, message |-> message], NoFile, FALSE)
GetHistoryList == Request("GET", "/api/history", <<>>, EmptyBody, NoFile, FALSE)
GetHistoryDetail(id) ==
  Request("GET", "/api/history/:id", id, EmptyBody, NoFile, FALSE)
GetProfile == Request("GET", "/api/profile", <<>>, EmptyBody, NoFile, FALSE)
PutProfile(name, file) ==
  Request("PUT", "/api/profile", <<>>, [name |-> name], file,
          FALSE)
PostFeedback(comment, rating) ==
  Request("POST", "/api/feedback", <<>>,
          [comment |-> comment, rating |-> rating], NoFile,
          FALSE)

Jpeg == File("image/jpeg", 1024, <<"a", ".", "j", "p", "g">>)
Pdf == File("application/pdf", 1024, <<"a", ".", "p", "d", "f">>)
BigJpeg == File("image/jpeg", FileSizeLimit + 1, <<"a", ".", "j", "p", "g">>)

Ratings ==
  {Undef, Num(0), Num(1), Num(4), Num(5), Str(<<"a", "b", "c">>),
   Str(<<"-", "3">>), Str(<<"5", ".", "5">>), Str(<<"0", "x", "5">>),
   Str(<<"", "5">>)}

\* The requests the clients send.
Requests ==
  {PostHistory(Str(<<"a">>), Str(<<"m">>)),
   PostHistory(Str(<<>>), Str(<<"m">>)),
   PostHistory(Str(<<"a">>), Undef),
   GetHistoryList,
   GetHistoryDetail(<<"1">>), GetHistoryDetail(<<"9">>),
   GetProfile,
   PutProfile(Undef, Jpeg), PutProfile(Str(<<"n">>), NoFile),
   PutProfile(Str(<<"n">>), Jpeg), PutProfile(Str(<<"n">>), Pdf),
   PutProfile(Str(<<"n">>), BigJpeg),
   PostFeedback(Str(<<>>), Num(3)),
   Request("GET", "/test", <<>>, EmptyBody, NoFile, FALSE),
   Request("POST", "/api/history", <<>>, EmptyBody, NoFile, TRUE)}
  \cup {PostFeedback(Str(<<"c">>), r) : r \in Ratings}

\* The requests to the history routes.
HistoryRequests ==
  {PostHistory(Str(<<"a">>), Str(<<"m">>)), PostHistory(Str(<<"b">>), Str(<<"m">>)),
   GetHistoryList, GetHistoryDetail(<<"1">>), GetHistoryDetail(<<"2">>)}

\* The requests of the pool's load.
PoolRequests == {GetHistoryList}

----------------------------------------------------------------------------
\* Responses.  res.status(s).json({success, data}) or ({success, message});
\* express's own final handler answers with an HTML page.
JsonData(status, data) ==
  [status |-> status, type |-> "json", success |-> TRUE, data |-> data,
   message |-> ""]
JsonMessage(status, message) ==
  [status |-> status, type |-> "json", success |-> FALSE, data |-> Null,
   message |-> message]
HtmlPage(status, text) ==
  [status |-> status, type |-> "html", success |-> FALSE, data |-> Null,
   message |-> text]
NoResponse == [req |-> NoRequest, res |-> HtmlPage(0, "")]

\* catch (error) { res.status(500).json({success: false, message: error.message}) }
Caught(message) == JsonMessage(500, message)
\* app.use((err, req, res, next) => ...)
ErrorMiddleware(message) == JsonMessage(500, message)
\* No route matches and no error is pending: express answers 404 with a page.
FinalHandler(q) == HtmlPage(404, "Cannot " \o q.method \o " " \o q.path)

\* What the synchronous start of a handler decides.
Respond(res) == [do |-> "respond", res |-> res, sql |-> "", params |-> <<>>]
Query(sql, params) ==
  [do |-> "query", res |-> HtmlPage(0, ""), sql |-> sql, params |-> params]
Upload == [do |-> "upload", res |-> HtmlPage(0, ""), sql |-> "", params |-> <<>>]

InsertHistory == "INSERT INTO history (title, message) VALUES (?, ?)"
SelectHistory == "SELECT * FROM history ORDER BY created_at DESC"
SelectHistoryById == "SELECT * FROM history WHERE id = ?"
SelectProfile == "SELECT * FROM profile LIMIT 1"
UpdateNameAndPicture ==
  "UPDATE profile SET name = ?, profile_picture_url = ? WHERE id = 1"
UpdateName == "UPDATE profile SET name = ? WHERE id = 1"
InsertFeedback == "INSERT INTO feedback (comment, rating) VALUES (?, ?)"

\* Variant: multer without the fileFilter.
MulterErrorNoFilter(file) ==
  IF file.present /\ file.size > FileSizeLimit THEN "File too large" ELSE ""

\* multer: the fileFilter on the part's header, then the size limit on its
\* content.  "" when the file (or its absence) passes.
MulterError(file) ==
  IF ~file.present THEN ""
  ELSE IF file.mimetype \notin AllowedMimes THEN "File harus berupa gambar."
  ELSE IF file.size > FileSizeLimit THEN "File too large"
  ELSE ""

CreateHistoryStart(q) ==
  IF ~Truthy(Field(q.body, "title")) \/ ~Truthy(Field(q.body, "message"))
    THEN Respond(JsonMessage(400, "Judul dan pesan harus diisi"))
    ELSE Query(InsertHistory,
               <<Field(q.body, "title"), Field(q.body, "message")>>)

ListHistoryStart(q) == Query(SelectHistory, <<>>)

HistoryDetailStart(q) == Query(SelectHistoryById, <<q.id>>)

GetProfileStart(q) == Query(SelectProfile, <<>>)

UpdateProfileStart(q) ==
  IF ~Truthy(Field(q.body, "name"))
    THEN Respond(JsonMessage(400, "Name is required"))
  ELSE IF q.file.present THEN Upload
  ELSE Query(UpdateName, <<Field(q.body, "name")>>)

CreateFeedbackStart(q) ==
  IF ~Truthy(Field(q.body, "comment")) \/ ~Truthy(Field(q.body, "rating"))
    THEN Respond(JsonMessage(400, "Komentar dan rating harus diisi"))
  ELSE IF \/ JsLess(Field(q.body, "rating"), 1)
          \/ JsGreater(Field(q.body, "rating"), 4)
    THEN Respond(JsonMessage(400, "Rating harus antara 1-4"))
  ELSE Query(InsertFeedback,
             <<Field(q.body, "comment"), Field(q.body, "rating")>>)

\* The middleware chain and the router, up to the handler's first await.
Dispatch(q) ==
  IF q.malformed THEN Respond(ErrorMiddleware("Unexpected token"))
  ELSE IF q.method = "POST" /\ q.path = "/api/history" THEN CreateHistoryStart(q)
  ELSE IF q.method = "GET" /\ q.path = "/api/history" THEN ListHistoryStart(q)
  ELSE IF q.method = "GET" /\ q.path = "/api/history/:id"
    THEN HistoryDetailStart(q)
  ELSE IF q.method = "GET" /\ q.path = "/api/profile" THEN GetProfileStart(q)
  ELSE IF q.method = "PUT" /\ q.path = "/api/profile"
    THEN IF MulterError(q.file) # ""
           THEN Respond(ErrorMiddleware(MulterError(q.file)))
           ELSE UpdateProfileStart(q)
  ELSE IF q.method = "POST" /\ q.path = "/api/feedback"
    THEN CreateFeedbackStart(q)
  ELSE Respond(FinalHandler(q))

----------------------------------------------------------------------------
\* uploadFile: the blob's name and its public URL.
BlobName(now, file) == <<"profiles/">> \o DecStr(now) \o <<"-">> \o file.originalname
PublicUrl(name) == <<"https://storage.googleapis.com/", BucketName, "/">> \o name

----------------------------------------------------------------------------
\* The store.  A statement's outcomes: the result set it returns and the
\* tables after it.
Outcome(rows, insertId, h, f, p) ==
  [rows |-> rows, insertId |-> insertId, history |-> h, feedback |-> f,
   profile |-> p]

Injections(n) == {p \in [1..n -> 1..n] : \A i, j \in 1..n : p[i] = p[j] => i = j}
Orderings(rows) ==
  {[i \in 1..Len(rows) |-> rows[p[i]]] : p \in Injections(Len(rows))}
SortedDesc(rows) ==
  \A i \in 1..(Len(rows) - 1) : rows[i].created_at >= rows[i + 1].created_at

\* Variant: the SELECT without its ORDER BY.
InInsertionOrder(rows) == {rows}

\* SELECT * FROM history ORDER BY created_at DESC: rows of equal created_at
\* come in any order.
OrderByCreatedAtDesc(rows) == {s \in Orderings(rows) : SortedDesc(s)}

SelectWhereId(rows, id) ==
  SelectSeq(rows, LAMBDA row : row.id = id)

ProfileRow(p, id) ==
  [id |-> id, name |-> p[id].name,
   profile_picture_url |-> p[id].profile_picture_url]

\* Variant: one UPDATE shape with the picture bound to NULL.
UpdateProfileNameClearsPicture(p, name) ==
  IF 1 \in DOMAIN p
    THEN [p EXCEPT ![1].name = name, ![1].profile_picture_url = Null]
    ELSE p
\* Variant: the UPDATE without its WHERE clause.
UpdateProfileNameAllRows(p, name) ==
  [id \in DOMAIN p |-> [p[id] EXCEPT !.name = name]]

\* UPDATE profile SET ... WHERE id = 1
UpdateProfileName(p, name) ==
  IF 1 \in DOMAIN p THEN [p EXCEPT ![1].name = name] ELSE p
UpdateProfileNameAndPicture(p, name, url) ==
  IF 1 \in DOMAIN p
    THEN [p EXCEPT ![1].name = name, ![1].profile_picture_url = url]
    ELSE p

Execute(sql, params) ==
  CASE sql = InsertHistory ->
         LET id == Len(history) + 1 IN
         {Outcome(<<>>, id,
                  Append(history, [id |-> id, title |-> params[1],
                                   message |-> params[2], created_at |-> clock]),
                  feedback, profile)}
    [] sql = SelectHistory ->
         {Outcome(s, 0, history, feedback, profile) :
            s \in OrderByCreatedAtDesc(history)}
    [] sql = SelectHistoryById ->
         {Outcome(SelectWhereId(history, SqlInt(params[1])), 0, history,
                  feedback, profile)}
    [] sql = SelectProfile ->
         IF DOMAIN profile = {}
           THEN {Outcome(<<>>, 0, history, feedback, profile)}
           ELSE {Outcome(<<ProfileRow(profile, id)>>, 0, history, feedback,
                         profile) : id \in DOMAIN profile}
    [] sql = UpdateName ->
         {Outcome(<<>>, 0, history, feedback,
                  UpdateProfileName(profile, params[1]))}
    [] sql = UpdateNameAndPicture ->
         {Outcome(<<>>, 0, history, feedback,
                  UpdateProfileNameAndPicture(profile, params[1], params[2]))}
    [] sql = InsertFeedback ->
         LET id == Len(feedback) + 1 IN
         {Outcome(<<>>, id, history,
                  Append(feedback, [id |-> id, comment |-> params[1],
                                    rating |-> params[2]]),
                  profile)}

----------------------------------------------------------------------------
\* What a handler answers once its statement has returned `out`.
\* Variant: the id taken from the result's affectedRows.
CreateHistoryDoneAffectedRows(q, out) ==
  JsonData(201, [id |-> 1, title |-> Field(q.body, "title"),
                 message |-> Field(q.body, "message")])

CreateHistoryDone(q, out) ==
  JsonData(201, [id |-> out.insertId, title |-> Field(q.body, "title"),
                 message |-> Field(q.body, "message")])

ListHistoryDone(q, out) == JsonData(200, out.rows)

HistoryDetailDone(q, out) ==
  IF out.rows = <<>> THEN JsonMessage(404, "Tidak memiliki akses")
  ELSE JsonData(200, out.rows[1])

GetProfileDone(q, out) ==
  IF out.rows = <<>> THEN JsonMessage(404, "Profil tidak ditemukan")
  ELSE JsonData(200, out.rows[1])

UpdateProfileDone(q, url) ==
  JsonData(200, [name |-> Field(q.body, "name"), profile_picture_url |-> url])

CreateFeedbackDone(q, out) ==
  JsonData(201, [id |-> out.insertId, comment |-> Field(q.body, "comment"),
                 rating |-> Field(q.body, "rating")])

HandlerDone(q, url, out) ==
  CASE q.path = "/api/history" /\ q.method = "POST" -> CreateHistoryDone(q, out)
    [] q.path = "/api/history" /\ q.method = "GET" -> ListHistoryDone(q, out)
    [] q.path = "/api/history/:id" -> HistoryDetailDone(q, out)
    [] q.path = "/api/profile" /\ q.method = "GET" -> GetProfileDone(q, out)
    [] q.path = "/api/profile" /\ q.method = "PUT" -> UpdateProfileDone(q, url)
    [] q.path = "/api/feedback" -> CreateFeedbackDone(q, out)

----------------------------------------------------------------------------
\* A request's record: where its task stands and the locals it resumes with.
Task(pc, q, sql, params, url) ==
  [pc |-> pc, q |-> q, sql |-> sql, params |-> params, url |-> url]
Done == Task("done", Null, "", <<>>, Null)

\* Where request r stands ("none" before it arrives).
Pc(r) == IF r \in 1..Len(reqs) THEN reqs[r].pc ELSE "none"

Put(r, task) ==
  IF r > Len(reqs) THEN Append(reqs, task) ELSE [reqs EXCEPT ![r] = task]

\* The connections the pool has open or is opening.
Connecting == Cardinality({r \in 1..Len(reqs) : Pc(r) = "connect"})
Opened == free + checkedOut + Connecting

\* query(sql, params) up to its first await: pool.getConnection().  An idle
\* connection is handed out; with none idle the pool opens one while fewer
\* than connectionLimit are open; otherwise the caller is queued.
CallQuery(r, q, sql, params, url) ==
  IF free > 0
    THEN /\ reqs' = Put(r, Task("execute", q, sql, params, url))
         /\ free' = free - 1
         /\ checkedOut' = checkedOut + 1
         /\ UNCHANGED <<queue, lastResponse>>
  ELSE IF Opened < ConnectionLimit
    THEN /\ reqs' = Put(r, Task("connect", q, sql, params, url))
         /\ UNCHANGED <<free, checkedOut, queue, lastResponse>>
  ELSE IF WaitForConnections
    THEN /\ reqs' = Put(r, Task("wait", q, sql, params, url))
         /\ queue' = Append(queue, r)
         /\ UNCHANGED <<free, checkedOut, lastResponse>>
  ELSE /\ reqs' = Put(r, Done)
       /\ lastResponse' = [req |-> q, res |-> Caught("No connections available.")]
       /\ UNCHANGED <<free, queue, checkedOut>>

\* The connection the pool was opening for r is established:
\* pool.getConnection() resolves.
Connected(r) ==
  /\ Pc(r) = "connect"
  /\ reqs' = [reqs EXCEPT ![r].pc = "execute"]
  /\ checkedOut' = checkedOut + 1
  /\ UNCHANGED <<history, feedback, profile, objects, clock, free, queue,
                 lastResponse>>

\* The store refuses the connection: pool.getConnection() rejects, query
\* throws and the handler's catch answers.  The pool drops the connection
\* and opens one for the first queued caller.
ConnectRefused(r) ==
  /\ Pc(r) = "connect"
  /\ lastResponse' = [req |-> reqs[r].q, res |-> Caught("ECONNREFUSED")]
  /\ IF queue # <<>>
       THEN /\ reqs' = [reqs EXCEPT ![r] = Done, ![Head(queue)].pc = "connect"]
            /\ queue' = Tail(queue)
       ELSE /\ reqs' = [reqs EXCEPT ![r] = Done]
            /\ UNCHANGED queue
  /\ UNCHANGED <<history, feedback, profile, objects, clock, free, checkedOut>>

\* A request arrives: the middleware and the handler up to its first await.
Receive(q, max) ==
  LET r == Len(reqs) + 1
      d == Dispatch(q)
  IN
  /\ Len(reqs) < max
  /\ UNCHANGED <<history, feedback, profile, objects>>
  /\ CASE d.do = "respond" ->
            /\ reqs' = Append(reqs, Done)
            /\ lastResponse' = [req |-> q, res |-> d.res]
            /\ UNCHANGED <<clock, checkedOut, free, queue>>
       [] d.do = "upload" ->
            /\ reqs' = Append(reqs, Task("upload", q, "", <<>>,
                                         BlobName(clock, q.file)))
            /\ \E dt \in {0, 1} : clock' = clock + dt
            /\ UNCHANGED <<checkedOut, free, queue, lastResponse>>
       [] d.do = "query" ->
            /\ CallQuery(r, q, d.sql, d.params, Null)
            /\ UNCHANGED clock

\* blobStream "finish": uploadFile resolves with the public URL and the
\* handler goes on to its UPDATE.
UploadFinish(r) ==
  /\ Pc(r) = "upload"
  /\ LET q == reqs[r].q
         url == PublicUrl(reqs[r].url)
     IN
     /\ objects' = objects \cup {reqs[r].url}
     /\ CallQuery(r, q, UpdateNameAndPicture, <<Field(q.body, "name"), url>>,
                  url)
  /\ UNCHANGED <<history, feedback, profile, clock>>

\* Variant: the stream's error is not turned into a rejection and the
\* handler goes on to its UPDATE.
UploadErrorIgnored(r) ==
  /\ Pc(r) = "upload"
  /\ LET q == reqs[r].q
         url == PublicUrl(reqs[r].url)
     IN CallQuery(r, q, UpdateNameAndPicture, <<Field(q.body, "name"), url>>,
                  url)
  /\ UNCHANGED <<history, feedback, profile, objects, clock>>

\* blobStream "error": uploadFile rejects and the handler's catch answers.
UploadError(r) ==
  /\ Pc(r) = "upload"
  /\ reqs' = [reqs EXCEPT ![r] = Done]
  /\ lastResponse' = [req |-> reqs[r].q, res |-> Caught("storage error")]
  /\ UNCHANGED <<history, feedback, profile, objects, clock, checkedOut, free,
                 queue>>

\* Variant: release() after the await instead of in a finally.
ReleasesOnSuccessOnly(ok) == ok

\* query's finally: whether connection.release() runs, given how execute ended.
ReleasesAfter(ok) == TRUE

\* connection.release(): the connection goes to the first queued caller,
\* and back to the pool's idle connections when there is none.
Release(r, ok) ==
  IF ~ReleasesAfter(ok)
    THEN /\ reqs' = [reqs EXCEPT ![r] = Done]
         /\ UNCHANGED <<checkedOut, free, queue>>
  ELSE IF queue # <<>>
    THEN /\ reqs' = [reqs EXCEPT ![r] = Done, ![Head(queue)].pc = "execute"]
         /\ queue' = Tail(queue)
         /\ UNCHANGED <<checkedOut, free>>
  ELSE /\ reqs' = [reqs EXCEPT ![r] = Done]
       /\ checkedOut' = checkedOut - 1
       /\ free' = free + 1
       /\ UNCHANGED queue

\* How far the clock may move while a statement runs.
Elapsed(sql) == IF sql = InsertHistory THEN {0, 1} ELSE {0}

\* connection.execute resolves: the statement has run, query releases the
\* connection and returns, and the handler answers.
ExecuteOk(r) ==
  /\ Pc(r) = "execute"
  /\ \E out \in Execute(reqs[r].sql, reqs[r].params) :
       /\ history' = out.history
       /\ feedback' = out.feedback
       /\ profile' = out.profile
       /\ lastResponse' =
            [req |-> reqs[r].q, res |-> HandlerDone(reqs[r].q, reqs[r].url, out)]
  /\ \E dt \in Elapsed(reqs[r].sql) : clock' = clock + dt
  /\ Release(r, TRUE)
  /\ UNCHANGED objects

\* connection.execute rejects: query releases the connection and throws,
\* and the handler's catch answers.
ExecuteError(r) ==
  /\ Pc(r) = "execute"
  /\ lastResponse' = [req |-> reqs[r].q, res |-> Caught("ER_QUERY")]
  /\ Release(r, FALSE)
  /\ UNCHANGED <<history, feedback, profile, objects, clock>>

----------------------------------------------------------------------------
\* The profile row is seeded outside the application, or missing.
SeedProfile == [name |-> Str(<<"o">>), profile_picture_url |-> Null]

\* The process has started: empty tables but for the profile, an empty
\* bucket, nothing received; mysql.createPool opens no connection.
Init ==
  /\ history = <<>>
  /\ feedback = <<>>
  /\ profile \in {[i \in ids |-> SeedProfile] : ids \in {{}, {1}, {1, 2}}}
  /\ objects = {}
  /\ clock = 9
  /\ checkedOut = 0
  /\ free = 0
  /\ queue = <<>>
  /\ reqs = <<>>
  /\ lastResponse = NoResponse

Next ==
  \/ \E q \in Requests : Receive(q, MaxReq)
  \/ \E r \in 1..Len(reqs) : UploadFinish(r)
  \/ \E r \in 1..Len(reqs) : UploadError(r)
  \/ \E r \in 1..Len(reqs) : Connected(r)
  \/ \E r \in 1..Len(reqs) : ConnectRefused(r)
  \/ \E r \in 1..Len(reqs) : ExecuteOk(r)
  \/ \E r \in 1..Len(reqs) : ExecuteError(r)

Spec == Init /\ [][Next]_vars

\* The history routes alone, with more requests.
NextHistory ==
  \/ \E q \in HistoryRequests : Receive(q, MaxHistoryReq)
  \/ \E r \in 1..Len(reqs) : Connected(r)
  \/ \E r \in 1..Len(reqs) : ConnectRefused(r)
  \/ \E r \in 1..Len(reqs) : ExecuteOk(r)
  \/ \E r \in 1..Len(reqs) : ExecuteError(r)

SpecHistory == Init /\ [][NextHistory]_vars

\* The pool under load: more requests than connections, from the start of
\* the process, each arriving at any moment, with a store that may refuse
\* a connection or fail a statement.
NextPool ==
  \/ \E q \in PoolRequests : Receive(q, MaxPoolReq)
  \/ \E r \in 1..Len(reqs) : Connected(r)
  \/ \E r \in 1..Len(reqs) : ConnectRefused(r)
  \/ \E r \in 1..Len(reqs) : ExecuteOk(r)
  \/ \E r \in 1..Len(reqs) : ExecuteError(r)

InitPool == Init /\ DOMAIN profile = {1}

SpecPool == InitPool /\ [][NextPool]_vars

----------------------------------------------------------------------------
\* Properties.

\* The step in which request r's statement returns and r is answered.
Answers(r) == Pc(r) = "execute" /\ reqs'[r].pc = "done"
IsRoute(q, method, path) == q.method = method /\ q.path = path
AllAnswered == \A r \in 1..Len(reqs) : Pc(r) = "done"

\* C1: every call of query that has acquired a connection releases it
\* exactly once, whether execute succeeds or fails: the connections checked
\* out are exactly those of the calls still executing, so none is checked
\* out once every call has completed.
C1_ConnectionsReleased ==
  /\ checkedOut = Cardinality({r \in 1..Len(reqs) : Pc(r) = "execute"})
  /\ AllAnswered => checkedOut = 0

\* A failed and a successful statement have both completed.
C1_Witness ==
  /\ AllAnswered
  /\ Len(history) = 1
  /\ lastResponse.res.message = "ER_QUERY"
  /\ checkedOut = 0

InRange(v) == v.t = "number" /\ 1 <= v.n /\ v.n <= 4

\* C2: POST /api/feedback with a non-empty comment inserts a row and answers
\* 201 if and only if 1 <= rating <= 4, and answers 400 without inserting
\* otherwise (rating 0, 5 or not a number); a store error aside.
C2_RatingAcceptedIffInRange ==
  /\ \A i \in 1..Len(feedback) : InRange(feedback[i].rating)
  /\ LET q == lastResponse.req
         res == lastResponse.res
     IN
     (IsRoute(q, "POST", "/api/feedback") /\ Truthy(Field(q.body, "comment"))
        /\ res.status # 500)
       => /\ res.status = 201 <=> InRange(Field(q.body, "rating"))
          /\ ~InRange(Field(q.body, "rating")) => res.status = 400

UploadedUrls == {PublicUrl(name) : name \in objects}

\* C3: the profile's UPDATE is issued only after uploadFile has resolved; a
\* failed upload issues no UPDATE, leaves the profile as it was and is
\* answered 500; so profile_picture_url never holds the URL of an upload
\* that did not finish.
C3_UpdateOnlyAfterUpload ==
  /\ [](/\ \A id \in DOMAIN profile :
             profile[id].profile_picture_url \in {Null} \cup UploadedUrls
        /\ \A r \in 1..Len(reqs) :
             (Pc(r) \in {"wait", "connect", "execute"}
                /\ reqs[r].q.file.present)
               => /\ reqs[r].sql = UpdateNameAndPicture
                  /\ reqs[r].params[2] \in UploadedUrls)
  /\ [][\A r \in 1..Len(reqs) :
          (Pc(r) = "upload" /\ reqs[r].url \notin objects'
             /\ reqs'[r].pc # "upload")
            => /\ reqs'[r].pc = "done"
               /\ lastResponse' = [req |-> reqs[r].q,
                                   res |-> JsonMessage(500, "storage error")]
               /\ UNCHANGED <<profile, checkedOut, free, queue>>]_vars

\* One upload finished and its URL is in the profile; another upload failed.
C3_Witness ==
  /\ 1 \in DOMAIN profile
  /\ profile[1].profile_picture_url # Null
  /\ lastResponse.res.message = "storage error"

\* The URL of the file uploaded at time ts under its original name.
DerivedUrl(ts, originalname) ==
  <<"https://storage.googleapis.com/", BucketName, "/", "profiles/">>
    \o DecStr(ts) \o <<"-">> \o originalname

\* C4: a successful PUT /api/profile without a file sets the profile row's
\* name and leaves its profile_picture_url as it was; with a file it sets
\* the name and replaces profile_picture_url with the URL derived from the
\* upload's timestamp and the file's original name.
C4_ProfileUpdateFrame ==
  [][\A r \in 1..Len(reqs) :
       LET q == reqs[r].q IN
       (Answers(r) /\ IsRoute(q, "PUT", "/api/profile")
          /\ lastResponse'.res.status = 200 /\ 1 \in DOMAIN profile)
         => /\ profile'[1].name = Field(q.body, "name")
            /\ IF q.file.present
                 THEN /\ \E ts \in 0..clock :
                           profile'[1].profile_picture_url =
                             DerivedUrl(ts, q.file.originalname)
                      /\ profile'[1].profile_picture_url \in UploadedUrls
                      /\ lastResponse'.res.data.profile_picture_url =
                           profile'[1].profile_picture_url
                 ELSE profile'[1].profile_picture_url =
                        profile[1].profile_picture_url]_vars

\* A PUT without a file has been answered 200 after a picture was set.
C4_Witness ==
  /\ lastResponse.req = PutProfile(Str(<<"n">>), NoFile)
  /\ lastResponse.res.status = 200
  /\ 1 \in DOMAIN profile
  /\ profile[1].name = Str(<<"n">>)
  /\ profile[1].profile_picture_url = DerivedUrl(9, <<"a", ".", "j", "p", "g">>)

Rejected(file) ==
  file.present
    /\ (file.mimetype \notin {"image/jpeg", "image/png", "image/jpg"}
          \/ file.size > 5 * 1024 * 1024)

\* C5: a PUT /api/profile whose file has a MIME type outside the allow-list
\* or is larger than 5 MiB never reaches the handler: no task is started for
\* it, nothing is written to the bucket or the store, and it is answered by
\* a 500 JSON envelope carrying the error's message.
C5_BadFileRejected ==
  /\ [](\A r \in 1..Len(reqs) : Pc(r) # "done" => ~Rejected(reqs[r].q.file))
  /\ [](Rejected(lastResponse.req.file)
          => /\ lastResponse.res.status = 500
             /\ lastResponse.res.type = "json"
             /\ lastResponse.res.success = FALSE
             /\ lastResponse.res.message \in
                  {"File harus berupa gambar.", "File too large"})
  /\ [][(Len(reqs') = Len(reqs) + 1 /\ lastResponse' # lastResponse
           /\ Rejected(lastResponse'.req.file))
          => UNCHANGED <<history, feedback, profile, objects, checkedOut,
                         free, queue>>]_vars

\* A PDF has been rejected.
C5_Witness ==
  /\ lastResponse.req = PutProfile(Str(<<"n">>), Pdf)
  /\ lastResponse.res = JsonMessage(500, "File harus berupa gambar.")
  /\ objects = {}

SameRecord(row, data) ==
  /\ data.id = row.id
  /\ data.title = row.title
  /\ data.message = row.message

\* C6: a POST /api/history that succeeds answers 201 with exactly the id the
\* store generated and the title and message submitted, and the record is
\* in every later GET /api/history and GET /api/history/<id>: rows stay as
\* they are, the list holds every row, and the detail of an existing id is
\* its row.
C6_CreatedHistoryIsKept ==
  [][/\ \A i \in 1..Len(history) :
          Len(history') >= i /\ history'[i] = history[i]
     /\ \A r \in 1..Len(reqs) :
          LET q == reqs[r].q
              res == lastResponse'.res
          IN
          (Answers(r) /\ res.status # 500) =>
            /\ IsRoute(q, "POST", "/api/history") =>
                 /\ res.status = 201
                 /\ DOMAIN res.data = {"id", "title", "message"}
                 /\ res.data.title = Field(q.body, "title")
                 /\ res.data.message = Field(q.body, "message")
                 /\ \A i \in 1..Len(history) : history[i].id # res.data.id
                 /\ \E i \in 1..Len(history') : SameRecord(history'[i], res.data)
            /\ IsRoute(q, "GET", "/api/history") =>
                 /\ res.status = 200
                 /\ \A i \in 1..Len(history) :
                      \E j \in 1..Len(res.data) :
                        SameRecord(history[i], res.data[j])
            /\ IsRoute(q, "GET", "/api/history/:id") =>
                 \A i \in 1..Len(history) :
                   q.id = DecStr(history[i].id) =>
                     res.status = 200 /\ SameRecord(history[i], res.data)]_vars

\* A record created is read back by its id.
C6_Witness ==
  /\ Len(history) = 1
  /\ lastResponse.req = GetHistoryDetail(<<"1">>)
  /\ lastResponse.res.status = 200
  /\ lastResponse.res.data.title = Str(<<"a">>)
  /\ lastResponse.res.data.message = Str(<<"m">>)

\* C7: history and feedback rows are never changed or deleted, and no
\* profile row is created or deleted: only the name and the
\* profile_picture_url of the row with id 1 change.
C7_RowsImmutable ==
  [][/\ \A i \in 1..Len(history) :
          Len(history') >= i /\ history'[i] = history[i]
     /\ \A i \in 1..Len(feedback) :
          Len(feedback') >= i /\ feedback'[i] = feedback[i]
     /\ DOMAIN profile' = DOMAIN profile
     /\ \A id \in DOMAIN profile : id # 1 => profile'[id] = profile[id]]_vars

\* A history row exists and the profile has been updated beside another row.
C7_Witness ==
  /\ Len(history) = 1
  /\ DOMAIN profile = {1, 2}
  /\ profile[1].name = Str(<<"n">>)
  /\ profile[2].name = Str(<<"o">>)

\* C8: every request is answered by a JSON envelope, never by an HTML page.
C8_AlwaysJsonEnvelope ==
  lastResponse # NoResponse => lastResponse.res.type = "json"

\* C9: GET /api/history answers 200 with all rows, newest first: of two
\* adjacent records the first's created_at is at least the second's; with
\* no rows it answers an empty sequence.
C9_ListNewestFirst ==
  [][\A r \in 1..Len(reqs) :
       LET res == lastResponse'.res IN
       (Answers(r) /\ IsRoute(reqs[r].q, "GET", "/api/history")
          /\ res.status # 500)
         => /\ res.status = 200
            /\ res.success
            /\ Len(res.data) = Len(history)
            /\ \A i \in 1..Len(history) :
                 \E j \in 1..Len(res.data) : res.data[j] = history[i]
            /\ \A j \in 1..(Len(res.data) - 1) :
                 res.data[j].created_at >= res.data[j + 1].created_at]_vars

\* A list of two records created at different times has been returned.
C9_Witness ==
  /\ lastResponse.req = GetHistoryList
  /\ lastResponse.res.status = 200
  /\ Len(lastResponse.res.data) = 2
  /\ lastResponse.res.data[1].created_at > lastResponse.res.data[2].created_at

\* Request r waits at place k of the queue while 10 connections are
\* checked out.
WaitsAtLimit(r, k) ==
  Pc(r) = "wait" /\ checkedOut = 10 /\ k \in 1..Len(queue) /\ queue[k] = r

C10_Witness == checkedOut = 10 /\ queue # <<>> /\ Pc(Head(queue)) = "wait"

====
